---- MODULE Spec2Model ----
(***************************************************************************)
(* A model of jsonquery's node tree (node.go): the tree built by Parse and *)
(* ParseFromMaps, the mutators SetInnerData and SetSkipped, the            *)
(* projections JSON and Maps, the traversal helpers, and the path query    *)
(* Find.  Nodes live in an arena (a sequence of node records); a *Node is  *)
(* an index into the arena and the nil pointer is 0.                       *)
(***************************************************************************)
EXTENDS Integers, Sequences, FiniteSets, TLC

VARIABLES
    input,   \* what the tree was built from: a JSON text or a record array
    tree,    \* the arena of nodes; node 1 is the document root
    ops,     \* number of mutating calls made so far
    last     \* the last call: its name, arguments, result, and the tree before it

vars == <<input, tree, ops, last>>

-----------------------------------------------------------------------------
(* Go dynamic values (interface{}).  A value carries its runtime type t.   *)

GoNil == [t |-> "nil"]
GoBool(b) == [t |-> "bool", b |-> b]
GoString(s) == [t |-> "string", s |-> s]
GoNum(t, n) == [t |-> t, n |-> n]
GoSlice(items) == [t |-> "slice", items |-> items]
GoMap(m) == [t |-> "map", m |-> m]
\* a named type (time.Duration): no case of parseValue's type switch matches it
GoDuration(n) == [t |-> "Duration", d |-> n]

IntKinds == {"int", "int8", "int16", "int32", "int64",
             "uint", "uint8", "uint16", "uint32", "uint64"}
FloatKinds == {"float32", "float64"}

-----------------------------------------------------------------------------
(* NodeType and contentType constants.                                     *)

DocumentNode == "DocumentNode"
ElementNode == "ElementNode"
TextNode == "TextNode"

interfaceType == "interface"
arrayType == "array"
objectType == "object"
stringType == "string"
boolType == "bool"
nullType == "null"
float32Type == "float32"
float64Type == "float64"

\* the types table: runtime type name -> contentType (every tag is spelled
\* like the type it names)
typesNames == {"bool", "string"} \cup IntKinds \cup FloatKinds
types == [name \in typesNames |-> name]

-----------------------------------------------------------------------------
(* Text rendering.                                                         *)

DigitChars == <<"0", "1", "2", "3", "4", "5", "6", "7", "8", "9">>

RECURSIVE NatToStr(_)
NatToStr(n) ==
    IF n < 10 THEN DigitChars[n + 1]
    ELSE NatToStr(n \div 10) \o DigitChars[(n % 10) + 1]

\* fmt.Sprintf("%v", v) of an integer
IntToStr(n) == IF n < 0 THEN "-" \o NatToStr(-n) ELSE NatToStr(n)

\* strconv.FormatFloat(v, 'f', -1, 64) of an integral double: plain digits
FormatFloatF(n) == IntToStr(n)

RECURSIVE NumDigits(_)
NumDigits(n) == IF n < 10 THEN 1 ELSE 1 + NumDigits(n \div 10)

RECURSIVE StripZeros(_)
StripZeros(n) == IF n # 0 /\ n % 10 = 0 THEN StripZeros(n \div 10) ELSE n

RECURSIVE Pow10(_)
Pow10(k) == IF k = 0 THEN 1 ELSE 10 * Pow10(k - 1)

\* n written with exactly w digits (leading zeros kept)
RECURSIVE PadNat(_, _)
PadNat(n, w) == IF w = 0 THEN "" ELSE PadNat(n \div 10, w - 1) \o DigitChars[(n % 10) + 1]

\* the %e form of the shortest digits of a positive integral double m
FormatE(m) ==
    LET exp == NumDigits(m) - 1
        digs == StripZeros(m)
        nd == NumDigits(digs)
        lead == digs \div Pow10(nd - 1)
        rest == digs % Pow10(nd - 1)
        frac == IF nd = 1 THEN "" ELSE "." \o PadNat(rest, nd - 1)
    IN NatToStr(lead) \o frac \o "e+" \o (IF exp < 10 THEN "0" ELSE "") \o NatToStr(exp)

\* fmt.Sprintf("%v", v) of an integral float: %g with the shortest digits,
\* which switches to the exponent form from 1e+06 on (exponent >= 6)
FormatFloatG(n) ==
    LET m == IF n < 0 THEN -n ELSE n
    IN IF NumDigits(m) - 1 >= 6
         THEN (IF n < 0 THEN "-" ELSE "") \o FormatE(m)
         ELSE IntToStr(n)

\* fmt.Sprintf("%v", v)
Sprintf(v) ==
    CASE v.t = "nil" -> "<nil>"
      [] v.t = "bool" -> IF v.b THEN "true" ELSE "false"
      [] v.t = "string" -> v.s
      [] v.t \in IntKinds -> IntToStr(v.n)
      [] v.t \in FloatKinds -> FormatFloatG(v.n)
      [] v.t = "Duration" -> IntToStr(v.d) \o "ns"
      [] OTHER -> "[]"

\* strconv.FormatBool
FormatBool(b) == IF b THEN "true" ELSE "false"

\* strconv.ParseBool: the texts it accepts
ParseBoolTrue == {"1", "t", "T", "TRUE", "true", "True"}
ParseBoolFalse == {"0", "f", "F", "FALSE", "false", "False"}

-----------------------------------------------------------------------------
(* Lexicographic order of the labels the model uses (sort.Strings).        *)

StrOrder == <<"", "a", "age", "asset_id", "b", "cars", "exportOptions", "id",
              "layers", "name", "userID">>

StrRank(s) == CHOOSE i \in 1..Len(StrOrder) : StrOrder[i] = s

StrLess(x, y) == StrRank(x) < StrRank(y)

\* (mutant) the keys in descending order
RECURSIVE SortStringsDescending(_)
SortStringsDescending(S) ==
    IF S = {} THEN <<>>
    ELSE LET m == CHOOSE x \in S : \A y \in S : ~StrLess(x, y)
         IN <<m>> \o SortStringsDescending(S \ {m})

\* sort.Strings of the keys of a map
RECURSIVE SortStrings(_)
SortStrings(S) ==
    IF S = {} THEN <<>>
    ELSE LET m == CHOOSE x \in S : \A y \in S : ~StrLess(y, x)
         IN <<m>> \o SortStrings(S \ {m})

-----------------------------------------------------------------------------
(* Nodes and tree construction.                                            *)

nil == 0

NewNode(Type, Data, level, idata) ==
    [Parent |-> nil, PrevSibling |-> nil, NextSibling |-> nil,
     FirstChild |-> nil, LastChild |-> nil,
     Type |-> Type, Data |-> Data, level |-> level,
     contentType |-> "", idata |-> idata, skipped |-> FALSE]

\* (mutant) the new last child is not linked back to the one before it
addNodeNoPrev(t, n, top) ==
    IF t[n].level > t[top].level THEN
        IF t[top].FirstChild = nil
          THEN [t EXCEPT ![n].Parent = top,
                         ![top].FirstChild = n,
                         ![top].LastChild = n]
          ELSE LET l == t[top].LastChild
               IN [t EXCEPT ![n].Parent = top,
                            ![l].NextSibling = n,
                            ![top].LastChild = n]
    ELSE t

\* parseValue's closure addNode: link node n (already in the arena) to top
addNode(t, n, top) ==
    IF t[n].level = t[top].level THEN
        LET p == t[top].Parent
            t1 == [t EXCEPT ![top].NextSibling = n,
                            ![n].PrevSibling = top,
                            ![n].Parent = p]
        IN IF p # nil THEN [t1 EXCEPT ![p].LastChild = n] ELSE t1
    ELSE IF t[n].level > t[top].level THEN
        IF t[top].FirstChild = nil
          THEN [t EXCEPT ![n].Parent = top,
                         ![top].FirstChild = n,
                         ![top].LastChild = n]
          ELSE LET l == t[top].LastChild
               IN [t EXCEPT ![n].Parent = top,
                            ![l].NextSibling = n,
                            ![n].PrevSibling = l,
                            ![top].LastChild = n]
    ELSE t

\* allocate a node and addNode it
NewChild(t, node, top) == addNode(Append(t, node), Len(t) + 1, top)

\* the closure addTextNodeFromInteger
addTextNodeFromInteger(t, v, top, level) ==
    NewChild(t, NewNode(TextNode, Sprintf(v), level, v), top)

\* (mutant) the float leaf keeps its text as payload
addTextNodeFromFloatText(t, v, top, level) ==
    NewChild(t, NewNode(TextNode, FormatFloatF(v.n), level, GoString(FormatFloatF(v.n))), top)

\* the closure addTextNodeFromFloat: its parameter is a float64, and that
\* float64 is what the node stores
addTextNodeFromFloat(t, v, top, level) ==
    NewChild(t, NewNode(TextNode, FormatFloatF(v.n), level, GoNum("float64", v.n)), top)

SetContentType(t, n, ct) == [t EXCEPT ![n].contentType = ct]

RECURSIVE parseValue(_, _, _, _)
RECURSIVE parseSlice(_, _, _, _, _)
RECURSIVE parseKeys(_, _, _, _, _, _)

\* the loop over the items of a slice
parseSlice(t, items, index, top, level) ==
    IF index > Len(items) THEN t
    ELSE LET t1 == NewChild(t, NewNode(ElementNode, "", level, GoNil), top)
             n == Len(t) + 1
         IN parseSlice(parseValue(t1, items[index], n, level + 1),
                       items, index + 1, top, level)

\* the loop over the sorted keys of a map
parseKeys(t, m, keys, i, top, level) ==
    IF i > Len(keys) THEN t
    ELSE LET t1 == NewChild(t, NewNode(ElementNode, keys[i], level, GoNil), top)
             n == Len(t) + 1
         IN parseKeys(parseValue(t1, m[keys[i]], n, level + 1),
                      m, keys, i + 1, top, level)

parseValue(t, x, top, level) ==
    IF x = GoNil THEN
        NewChild(SetContentType(t, top, nullType), NewNode(TextNode, "", level, x), top)
    ELSE IF x.t = "slice" THEN
        parseSlice(SetContentType(t, top, arrayType), x.items, 1, top, level)
    ELSE CASE x.t = "map" ->
                parseKeys(SetContentType(t, top, objectType), x.m,
                          SortStrings(DOMAIN x.m), 1, top, level)
           [] x.t = "string" ->
                NewChild(SetContentType(t, top, stringType),
                         NewNode(TextNode, x.s, level, x), top)
           [] x.t \in IntKinds ->
                addTextNodeFromInteger(SetContentType(t, top, types[x.t]), x, top, level)
           [] x.t = "float32" ->
                addTextNodeFromFloat(SetContentType(t, top, float32Type), x, top, level)
           [] x.t = "float64" ->
                addTextNodeFromFloat(SetContentType(t, top, float64Type), x, top, level)
           [] x.t = "bool" ->
                NewChild(SetContentType(t, top, boolType),
                         NewNode(TextNode, FormatBool(x.b), level, x), top)
           [] OTHER ->
                NewChild(SetContentType(t, top, interfaceType),
                         NewNode(TextNode, Sprintf(x), level, x), top)

\* the calls of addNode that parseValue(x, top, level) makes, each as the
\* pair of the level of the node added and the level of top
RECURSIVE AddLevels(_, _, _)
AddLevels(x, toplevel, level) ==
    IF x # GoNil /\ x.t = "slice" THEN
        {<<level, toplevel>> : i \in 1..Len(x.items)}
        \cup UNION {AddLevels(x.items[i], level, level + 1) : i \in 1..Len(x.items)}
    ELSE IF x # GoNil /\ x.t = "map" THEN
        {<<level, toplevel>> : k \in DOMAIN x.m}
        \cup UNION {AddLevels(x.m[k], level, level + 1) : k \in DOMAIN x.m}
    ELSE {<<level, toplevel>>}

-----------------------------------------------------------------------------
(* JSON texts and their decoding (encoding/json into interface{}).         *)

TNull == [j |-> "null"]
TBool(b) == [j |-> "bool", b |-> b]
TNum(n) == [j |-> "num", n |-> n]
TStr(s) == [j |-> "str", s |-> s]
TArr(items) == [j |-> "arr", items |-> items]
\* members: the key/value pairs in the order they are written
TObj(members) == [j |-> "obj", members |-> members]
Member(k, v) == [k |-> k, val |-> v]

\* json.Unmarshal into interface{}: numbers become float64, objects become
\* maps (no order; of a repeated key the last value stays)
\* the value of the last member written with key k
MemberValue(ms, k) ==
    ms[CHOOSE i \in 1..Len(ms) : ms[i].k = k /\ \A j \in (i + 1)..Len(ms) : ms[j].k # k].val

MemberKeys(ms) == {ms[i].k : i \in 1..Len(ms)}

RECURSIVE Unmarshal(_)
Unmarshal(T) ==
    CASE T.j = "null" -> GoNil
      [] T.j = "bool" -> GoBool(T.b)
      [] T.j = "num" -> GoNum("float64", T.n)
      [] T.j = "str" -> GoString(T.s)
      [] T.j = "arr" -> GoSlice([i \in 1..Len(T.items) |-> Unmarshal(T.items[i])])
      [] T.j = "obj" ->
            GoMap([k \in MemberKeys(T.members) |-> Unmarshal(MemberValue(T.members, k))])

\* parse: decode, tag the document, build
parse(T) ==
    LET v == Unmarshal(T)
        doc == NewNode(DocumentNode, "", 0, GoNil)
        tagged == CASE v.t = "slice" -> [doc EXCEPT !.contentType = arrayType]
                    [] v.t = "map" -> [doc EXCEPT !.contentType = objectType]
                    [] OTHER -> doc
    IN parseValue(<<tagged>>, v, 1, 1)

Parse(T) == parse(T)

\* maps: a sequence of Go maps
ParseFromMaps(maps) ==
    LET doc == [NewNode(DocumentNode, "", 0, GoNil) EXCEPT !.contentType = arrayType]
    IN parseValue(<<doc>>, GoSlice(maps), 1, 1)

-----------------------------------------------------------------------------
(* Node methods.                                                           *)

RECURSIVE SiblingsFrom(_, _)
SiblingsFrom(t, nn) ==
    IF nn = nil THEN <<>> ELSE <<nn>> \o SiblingsFrom(t, t[nn].NextSibling)

\* (mutant) the loop leaves out the children marked skipped
ChildNodesNotSkipped(t, n) ==
    SelectSeq(SiblingsFrom(t, t[n].FirstChild), LAMBDA m : ~t[m].skipped)

\* (mutant) the loop stops after the first child
ChildNodesFirstOnly(t, n) == IF t[n].FirstChild = nil THEN <<>> ELSE <<t[n].FirstChild>>

ChildNodes(t, n) == SiblingsFrom(t, t[n].FirstChild)

RECURSIVE InnerText(_, _)
RECURSIVE InnerTextFrom(_, _)
InnerTextFrom(t, child) ==
    IF child = nil THEN ""
    ELSE InnerText(t, child) \o InnerTextFrom(t, t[child].NextSibling)

InnerText(t, n) ==
    IF t[n].Type = TextNode THEN t[n].Data
    ELSE InnerTextFrom(t, t[n].FirstChild)

\* Go maps as functions: the empty map and obj[k] = v
EmptyMap == [k \in {} |-> GoNil]
MapSet(obj, key, v) == [k \in (DOMAIN obj) \cup {key} |-> IF k = key THEN v ELSE obj[k]]

RECURSIVE InnerData(_, _)
RECURSIVE InnerDataArray(_, _, _, _)
RECURSIVE InnerDataObject(_, _, _, _)

InnerDataArray(t, kids, i, arr) ==
    IF i > Len(kids) THEN GoSlice(arr)
    ELSE IF t[kids[i]].skipped THEN InnerDataArray(t, kids, i + 1, arr)
    ELSE InnerDataArray(t, kids, i + 1, Append(arr, InnerData(t, kids[i])))

InnerDataObject(t, kids, i, obj) ==
    IF i > Len(kids) THEN GoMap(obj)
    ELSE IF t[kids[i]].skipped THEN InnerDataObject(t, kids, i + 1, obj)
    ELSE InnerDataObject(t, kids, i + 1,
                         MapSet(obj, t[kids[i]].Data, InnerData(t, kids[i])))

InnerData(t, n) ==
    CASE t[n].contentType = arrayType -> InnerDataArray(t, ChildNodes(t, n), 1, <<>>)
      [] t[n].contentType = objectType -> InnerDataObject(t, ChildNodes(t, n), 1, EmptyMap)
      [] OTHER -> IF Len(ChildNodes(t, n)) > 0
                    THEN t[t[n].FirstChild].idata
                    ELSE t[n].idata

\* reflect.TypeOf(idata).Name(): the name of a named or predeclared type,
\* empty for an unnamed composite type
TypeName(v) == IF v.t \in {"slice", "map"} THEN "" ELSE v.t

\* results of a call: a normal return, an error return, or a panic
Ok(v) == [st |-> "ok", v |-> v]
Err(msg) == [st |-> "err", msg |-> msg]
Panic(msg) == [st |-> "panic", msg |-> msg]

\* SetInnerData returns the tree it leaves behind and whether it panicked
RECURSIVE SetInnerData(_, _, _)
SetInnerData(t, n, idata) ==
    IF t[n].Type = ElementNode THEN
        IF t[n].FirstChild = nil
          THEN [tree |-> t, st |-> "panic"]
          ELSE SetInnerData(t, t[n].FirstChild, idata)
    ELSE IF t[n].Type = TextNode THEN
        LET t1 == [t EXCEPT ![n].idata = idata]
            p == t[n].Parent
        IN IF idata = GoNil THEN
               IF p = nil THEN [tree |-> t1, st |-> "panic"]
               ELSE [tree |-> SetContentType(t1, p, nullType), st |-> "ok"]
           ELSE IF TypeName(idata) \notin DOMAIN types THEN
               [tree |-> t1, st |-> "panic"]
           ELSE IF p = nil THEN [tree |-> t1, st |-> "panic"]
           ELSE [tree |-> [SetContentType(t1, p, types[TypeName(idata)])
                              EXCEPT ![n].Data = Sprintf(idata)],
                 st |-> "ok"]
    ELSE [tree |-> t, st |-> "ok"]

\* (mutant) a value receiver: the flag is set on a copy of the node
SetSkippedOnCopy(t, n, skipped) == t

\* (mutant) the flag is also set on the first child of the node
SetSkippedAlsoFirstChild(t, n, skipped) ==
    IF t[n].FirstChild = nil THEN [t EXCEPT ![n].skipped = skipped]
    ELSE [t EXCEPT ![n].skipped = skipped, ![t[n].FirstChild].skipped = skipped]

SetSkipped(t, n, skipped) == [t EXCEPT ![n].skipped = skipped]

Skipped(t, n) == t[n].skipped

\* (mutant) no walk: the direct parent, whatever the level asked
GetParentDirect(t, n, level) ==
    IF t[n].Parent = nil THEN Panic("nil pointer dereference") ELSE Ok(t[n].Parent)

\* GetParent dereferences n.Parent without a nil check
RECURSIVE GetParent(_, _, _)
GetParent(t, n, level) ==
    IF t[n].Parent = nil THEN Panic("nil pointer dereference")
    ELSE IF t[t[n].Parent].level = level THEN Ok(t[n].Parent)
    ELSE GetParent(t, t[n].Parent, level)

\* the scalar cases of JSON's switch
JSONScalar(t, n) ==
    LET ct == t[n].contentType
        d == InnerData(t, n)
    IN CASE ct = stringType -> Ok(d)
         [] ct \in IntKinds \cup FloatKinds ->
               IF d.t = ct THEN Ok(d) ELSE Panic("interface conversion")
         [] ct = boolType ->
               LET s == InnerText(t, n)
               IN IF s \in ParseBoolTrue THEN Ok(GoBool(TRUE))
                  ELSE IF s \in ParseBoolFalse THEN Ok(GoBool(FALSE))
                  ELSE Err("strconv.ParseBool")
         [] ct = nullType -> Ok(GoNil)
         [] OTHER -> Ok(d)

RECURSIVE JSON(_, _, _)
RECURSIVE JSONArray(_, _, _, _, _)
RECURSIVE JSONObject(_, _, _, _, _)

JSONArray(t, kids, i, skipped, arr) ==
    IF i > Len(kids) THEN Ok(GoSlice(arr))
    ELSE IF skipped /\ t[kids[i]].skipped THEN JSONArray(t, kids, i + 1, skipped, arr)
    ELSE LET r == JSON(t, kids[i], skipped)
         IN IF r.st # "ok" THEN r
            ELSE JSONArray(t, kids, i + 1, skipped, Append(arr, r.v))

JSONObject(t, kids, i, skipped, obj) ==
    IF i > Len(kids) THEN Ok(GoMap(obj))
    ELSE IF skipped /\ t[kids[i]].skipped THEN JSONObject(t, kids, i + 1, skipped, obj)
    ELSE LET r == JSON(t, kids[i], skipped)
         IN IF r.st # "ok" THEN r
            ELSE JSONObject(t, kids, i + 1, skipped, MapSet(obj, t[kids[i]].Data, r.v))

JSON(t, n, skipped) ==
    IF InnerData(t, n) = GoNil THEN Ok(GoNil)
    ELSE CASE t[n].contentType = arrayType ->
                 JSONArray(t, ChildNodes(t, n), 1, skipped, <<>>)
           [] t[n].contentType = objectType ->
                 JSONObject(t, ChildNodes(t, n), 1, skipped, EmptyMap)
           [] OTHER -> JSONScalar(t, n)

\* (mutant) no check of the node's tag
toMapUnchecked(t, n, skipped) ==
    LET r == JSON(t, n, skipped)
    IN IF r.st # "ok" THEN r
       ELSE IF r.v.t # "map" THEN Panic("interface conversion")
       ELSE r

toMap(t, n, skipped) ==
    IF t[n].contentType # objectType THEN Err("node is not object")
    ELSE LET r == JSON(t, n, skipped)
         IN IF r.st # "ok" THEN r
            ELSE IF r.v.t # "map" THEN Panic("interface conversion")
            ELSE r

RECURSIVE MapsLoop(_, _, _, _, _)
MapsLoop(t, kids, i, skipped, records) ==
    IF i > Len(kids) THEN Ok(records)
    ELSE IF skipped /\ t[kids[i]].skipped THEN MapsLoop(t, kids, i + 1, skipped, records)
    ELSE LET r == toMap(t, kids[i], skipped)
         IN IF r.st # "ok" THEN r
            ELSE MapsLoop(t, kids, i + 1, skipped, Append(records, r.v))

\* Maps returns a sequence of Go maps
Maps(t, n, skipped) ==
    IF t[n].contentType # arrayType THEN Err("cannot convert Node")
    ELSE MapsLoop(t, ChildNodes(t, n), 1, skipped, <<>>)

RECURSIVE SelectFrom(_, _, _)
SelectFrom(t, nn, name) ==
    IF nn = nil THEN nil
    ELSE IF t[nn].Data = name THEN nn
    ELSE SelectFrom(t, t[nn].NextSibling, name)

SelectElement(t, n, name) == SelectFrom(t, t[n].FirstChild, name)

-----------------------------------------------------------------------------
(* Find (the query engine).  A pattern is given as the tokens its split on *)
(* "/" yields: "*/a" is <<"*", "a">>, "//a" is <<"", "", "a">>.            *)

\* every node below n (n excluded), by an exhaustive walk of its subtree
RECURSIVE Descendants(_, _)
RECURSIVE DescendantsFrom(_, _)
DescendantsFrom(t, c) ==
    IF c = nil THEN <<>>
    ELSE <<c>> \o Descendants(t, c) \o DescendantsFrom(t, t[c].NextSibling)

Descendants(t, n) == DescendantsFrom(t, t[n].FirstChild)

TokenMatches(t, m, token) == token = "*" \/ t[m].Data = token

RECURSIVE KeepMatching(_, _, _)
KeepMatching(t, seq, token) ==
    IF seq = <<>> THEN <<>>
    ELSE (IF TokenMatches(t, Head(seq), token) THEN <<Head(seq)>> ELSE <<>>)
         \o KeepMatching(t, Tail(seq), token)

\* one step from one context node
StepFrom(t, n, axis, token) ==
    KeepMatching(t, IF axis = "child" THEN ChildNodes(t, n) ELSE Descendants(t, n), token)

\* one step from the whole context, context node by context node
RECURSIVE Step(_, _, _, _)
Step(t, ctx, axis, token) ==
    IF ctx = <<>> THEN <<>>
    ELSE StepFrom(t, Head(ctx), axis, token) \o Step(t, Tail(ctx), axis, token)

\* keep the first occurrence of every node
RECURSIVE Unique(_, _)
Unique(seq, seen) ==
    IF seq = <<>> THEN <<>>
    ELSE IF Head(seq) \in seen THEN Unique(Tail(seq), seen)
    ELSE <<Head(seq)>> \o Unique(Tail(seq), seen \cup {Head(seq)})

RECURSIVE Evaluate(_, _, _, _, _)
Evaluate(t, ctx, tokens, i, axis) ==
    IF i > Len(tokens) THEN (IF axis = "descendant" THEN <<>> ELSE Unique(ctx, {}))
    ELSE IF tokens[i] = "" THEN Evaluate(t, ctx, tokens, i + 1, "descendant")
    ELSE Evaluate(t, Step(t, ctx, axis, tokens[i]), tokens, i + 1, "child")

Find(t, top, tokens) == Evaluate(t, <<top>>, tokens, 1, "child")

-----------------------------------------------------------------------------
(* Bounded inputs.  The size of a value is its number of scalars and       *)
(* containers.                                                             *)

\* largest JSON text given to Parse
MaxTextSize == 3
\* largest record array given to ParseFromMaps (the array itself not counted)
MaxMapsSize == 3
\* largest JSON text searched by Find
MaxFindSize == 4
\* longest pattern, in tokens
MaxTokens == 3
\* most SetInnerData and SetSkipped calls made on one tree
MaxOps == 2

Keys == {"a", "b"}
KeyList == SortStrings(Keys)

TextScalars == {TNull, TBool(TRUE), TBool(FALSE), TStr("a"), TNum(1), TNum(2)}

\* every object lists its keys once, in ascending order
RECURSIVE Canonical(_)
Canonical(T) ==
    CASE T.j = "arr" -> \A i \in 1..Len(T.items) : Canonical(T.items[i])
      [] T.j = "obj" ->
            /\ \A i \in 1..Len(T.members) : Canonical(T.members[i].val)
            /\ \A i \in 1..(Len(T.members) - 1) :
                  StrLess(T.members[i].k, T.members[i + 1].k)
      [] OTHER -> TRUE

RECURSIVE TextsOfSize(_, _)
RECURSIVE ItemSeqs(_, _)
RECURSIVE MemberSeqs(_, _)

\* the JSON texts of size n over the scalars S
TextsOfSize(n, S) ==
    IF n = 1 THEN S \cup {TArr(<<>>), TObj(<<>>)}
    ELSE {TArr(q) : q \in ItemSeqs(n - 1, S)} \cup {TObj(q) : q \in MemberSeqs(n - 1, S)}

ItemSeqs(m, S) ==
    IF m = 0 THEN {<<>>}
    ELSE UNION {{<<x>> \o r : x \in TextsOfSize(k, S), r \in ItemSeqs(m - k, S)} : k \in 1..m}

\* member lists in every written order, repeated keys included
MemberSeqs(m, S) ==
    IF m = 0 THEN {<<>>}
    ELSE UNION {{<<Member(key, x)>> \o r :
                    key \in Keys, x \in TextsOfSize(k, S), r \in MemberSeqs(m - k, S)} :
                k \in 1..m}

TextsUpTo(n, S) == UNION {TextsOfSize(k, S) : k \in 1..n}

\* one value of every scalar kind parseValue knows, and one it does not
TypedScalars ==
    {GoNil, GoString("a"), GoBool(TRUE), GoBool(FALSE), GoDuration(5)}
    \cup {GoNum(k, 1) : k \in IntKinds \cup FloatKinds}
    \cup {GoNum("int8", -1), GoNum("float64", 1000000)}

RECURSIVE GoValsOfSize(_, _)
RECURSIVE GoItemSeqs(_, _)
RECURSIVE GoMapsFrom(_, _, _)

\* the Go values of size n over the scalars S
GoValsOfSize(n, S) ==
    IF n = 1 THEN S \cup {GoSlice(<<>>), GoMap(EmptyMap)}
    ELSE {GoSlice(q) : q \in GoItemSeqs(n - 1, S)}
         \cup {GoMap(f) : f \in GoMapsFrom(1, n - 1, S)}

GoItemSeqs(m, S) ==
    IF m = 0 THEN {<<>>}
    ELSE UNION {{<<x>> \o r : x \in GoValsOfSize(k, S), r \in GoItemSeqs(m - k, S)} : k \in 1..m}

\* the maps over the keys KeyList[i..] whose values have total size m
GoMapsFrom(i, m, S) ==
    IF m = 0 THEN {EmptyMap}
    ELSE IF i > Len(KeyList) THEN {}
    ELSE GoMapsFrom(i + 1, m, S)
         \cup UNION {{MapSet(f, KeyList[i], v) :
                         v \in GoValsOfSize(k, S), f \in GoMapsFrom(i + 1, m - k, S)} :
                     k \in 1..m}

RECURSIVE RecordSeqs(_, _)
\* the record arrays (sequences of maps) of total size m
RecordSeqs(m, S) ==
    IF m = 0 THEN {<<>>}
    ELSE UNION {{<<GoMap(f)>> \o r : f \in GoMapsFrom(1, k - 1, S), r \in RecordSeqs(m - k, S)} :
                k \in 1..m}

RecordsUpTo(n, S) == UNION {RecordSeqs(k, S) : k \in 0..n}

-----------------------------------------------------------------------------
(* Documents of the tests.                                                 *)

\* TestFindAssetIDs, "More than one item in array"
DocAssets ==
    TArr(<<TObj(<<Member("id", TNum(1)), Member("asset_id", TNum(1)),
                  Member("layers", TArr(<<TObj(<<Member("asset_id", TNum(11))>>)>>))>>),
           TObj(<<Member("id", TNum(2)), Member("asset_id", TNum(2))>>)>>)

\* TestParseJson, with one car
DocJohn ==
    TObj(<<Member("name", TStr("a")), Member("age", TNum(30)),
           Member("cars", TArr(<<TObj(<<Member("name", TStr("b"))>>)>>))>>)

\* records.json, two records
DocUsers ==
    TArr(<<TObj(<<Member("id", TNum(1)), Member("userID", TNum(10))>>),
           TObj(<<Member("id", TNum(2)), Member("userID", TNum(20))>>)>>)

\* layers and exportOptions nested inside one another, as in screen_v3_01.json
DocLayers ==
    TObj(<<Member("layers",
             TArr(<<TObj(<<Member("exportOptions",
                             TObj(<<Member("asset_id", TNum(1)),
                                    Member("exportOptions",
                                           TObj(<<Member("asset_id", TNum(2))>>))>>)),
                           Member("layers",
                             TArr(<<TObj(<<Member("exportOptions",
                                             TObj(<<Member("asset_id", TNum(3))>>))>>)>>))>>)>>)),
           Member("asset_id", TNum(4))>>)

\* TestMaps, "parse from array of map", two records
RecTyped ==
    <<GoMap([a |-> GoNum("int8", -1), b |-> GoNum("uint16", 1)]),
      GoMap([a |-> GoString("a"), b |-> GoSlice(<<GoNum("int", 1), GoNum("int", 2)>>),
             id |-> GoNil])>>

TextInput(T) == [kind |-> "text", T |-> T]
MapsInput(R) == [kind |-> "maps", R |-> R]

Build(in) == IF in.kind = "text" THEN Parse(in.T) ELSE ParseFromMaps(in.R)

BuildOp(in) == [op |-> IF in.kind = "text" THEN "Parse" ELSE "ParseFromMaps"]

doc == 1

Nodes == 1..Len(tree)

-----------------------------------------------------------------------------
(* SpecBuild: a tree is built and then only read.                          *)

BuildInputs ==
    {TextInput(T) : T \in TextsUpTo(MaxTextSize, TextScalars) \cup {DocAssets, DocJohn, DocUsers}}
    \cup {MapsInput(R) : R \in RecordsUpTo(MaxMapsSize, TypedScalars) \cup {RecTyped}}

InitBuild ==
    /\ input \in BuildInputs
    /\ tree = Build(input)
    /\ ops = 0
    /\ last = BuildOp(input)

\* The reading calls leave the tree as it is, so a second call in a row
\* would see what the first saw: each is taken once after a build.
Built == last.op \in {"Parse", "ParseFromMaps"}

CallJSON(n, skipped) ==
    /\ Built
    /\ last' = [op |-> "JSON", n |-> n, skipped |-> skipped, ret |-> JSON(tree, n, skipped)]
    /\ UNCHANGED <<input, tree, ops>>

CallMaps(n, skipped) ==
    /\ Built
    /\ last' = [op |-> "Maps", n |-> n, skipped |-> skipped, ret |-> Maps(tree, n, skipped)]
    /\ UNCHANGED <<input, tree, ops>>

CallChildNodes(n) ==
    /\ Built
    /\ last' = [op |-> "ChildNodes", n |-> n, ret |-> ChildNodes(tree, n)]
    /\ UNCHANGED <<input, tree, ops>>

\* n.GetParent(level), for the levels of the tree and one beyond at each end
CallGetParent(n, level) ==
    /\ Built
    /\ last' = [op |-> "GetParent", n |-> n, level |-> level, ret |-> GetParent(tree, n, level)]
    /\ UNCHANGED <<input, tree, ops>>

NextBuild ==
    \/ \E n \in Nodes, skipped \in BOOLEAN : CallJSON(n, skipped)
    \/ \E n \in Nodes, skipped \in BOOLEAN : CallMaps(n, skipped)
    \/ \E n \in Nodes : CallChildNodes(n)
    \/ \E n \in Nodes, level \in -1..Len(tree) : CallGetParent(n, level)

SpecBuild == InitBuild /\ [][NextBuild]_vars

-----------------------------------------------------------------------------
(* SpecFind: a tree is built by Parse and searched.                        *)

FindScalars == {TNum(1)}

FindInputs ==
    {TextInput(T) : T \in {x \in TextsUpTo(MaxFindSize, FindScalars) : Canonical(x)}
                          \cup {DocAssets, DocUsers, DocLayers}}

Tokens == {"", "*", "a", "b"}

\* the patterns of the tests: "*/asset_id", "*/userID",
\* "//layers//exportOptions//asset_id", "*/layers//exportOptions//asset_id"
TestPatterns ==
    {<<"*", "asset_id">>, <<"*", "userID">>,
     <<"", "", "layers", "", "exportOptions", "", "asset_id">>,
     <<"*", "layers", "", "exportOptions", "", "asset_id">>}

Patterns ==
    UNION {[1..k -> Tokens] : k \in 1..MaxTokens} \cup TestPatterns

InitFind ==
    /\ input \in FindInputs
    /\ tree = Build(input)
    /\ ops = 0
    /\ last = BuildOp(input)

CallFind(tokens) ==
    /\ Built
    /\ last' = [op |-> "Find", tokens |-> tokens, ret |-> Find(tree, doc, tokens)]
    /\ UNCHANGED <<input, tree, ops>>

NextFind == \E tokens \in Patterns : CallFind(tokens)

SpecFind == InitFind /\ [][NextFind]_vars

-----------------------------------------------------------------------------
(* Spec: a tree is built and then changed by SetInnerData and SetSkipped.  *)

MutTextScalars == {TNull, TBool(TRUE), TNum(1)}
MutTypedScalars == {GoNum("float32", 1), GoNum("int8", 1), GoString("a")}

MutInputs ==
    {TextInput(T) : T \in {x \in TextsUpTo(MaxTextSize, MutTextScalars) : Canonical(x)}}
    \cup {MapsInput(R) : R \in RecordsUpTo(MaxMapsSize, MutTypedScalars)}

\* the values given to SetInnerData; the last two have no scalar tag
SetValues ==
    {GoNil, GoString("b"), GoBool(FALSE), GoNum("float64", 1000000),
     GoNum("float32", 2), GoNum("int8", 2),
     GoSlice(<<GoNum("int", 1)>>), GoDuration(5)}

Init ==
    /\ input \in MutInputs
    /\ tree = Build(input)
    /\ ops = 0
    /\ last = BuildOp(input)

\* n.SetSkipped(skipped)
CallSetSkipped(n, skipped) ==
    /\ ops < MaxOps
    /\ tree' = SetSkipped(tree, n, skipped)
    /\ ops' = ops + 1
    /\ last' = [op |-> "SetSkipped", n |-> n, skipped |-> skipped, pre |-> tree]
    /\ UNCHANGED input

\* n.SetInnerData(idata); a caller that recovers from the panic goes on with
\* the tree as the call left it
CallSetInnerData(n, idata) ==
    /\ ops < MaxOps
    /\ LET r == SetInnerData(tree, n, idata)
       IN /\ tree' = r.tree
          /\ last' = [op |-> "SetInnerData", n |-> n, idata |-> idata,
                      st |-> r.st, pre |-> tree]
    /\ ops' = ops + 1
    /\ UNCHANGED input

Next ==
    \/ \E n \in Nodes, skipped \in BOOLEAN : CallSetSkipped(n, skipped)
    \/ \E n \in Nodes, idata \in SetValues : CallSetInnerData(n, idata)

Spec == Init /\ [][Next]_vars

-----------------------------------------------------------------------------
(* Helpers of the properties.                                              *)

Labels(t, kids) == [i \in 1..Len(kids) |-> t[kids[i]].Data]

RECURSIVE SiblingIndex(_, _)
SiblingIndex(t, n) ==
    IF t[n].PrevSibling = nil THEN 1 ELSE 1 + SiblingIndex(t, t[n].PrevSibling)

\* the part of the text T that node n was built from
RECURSIVE TextAt(_, _, _)
TextAt(T, t, n) ==
    IF t[n].Parent = nil THEN T
    ELSE LET PT == TextAt(T, t, t[n].Parent)
         IN IF t[n].Type = TextNode THEN PT
            ELSE IF PT.j = "arr" THEN PT.items[SiblingIndex(t, n)]
            ELSE MemberValue(PT.members, t[n].Data)

StrictlyAscending(labels) ==
    \A i \in 1..(Len(labels) - 1) : StrLess(labels[i], labels[i + 1])

-----------------------------------------------------------------------------
(* Properties of a built tree (SpecBuild).                                 *)

\* C1: Parse(T) followed by JSON(false) on the document returns, without
\* error, the value that decoding T gives.
C1_TextRoundTrip ==
    (input.kind = "text" /\ last.op = "JSON" /\ last.n = doc /\ ~last.skipped)
        => last.ret = Ok(Unmarshal(input.T))

C1_Witness ==
    /\ input = TextInput(DocAssets)
    /\ last.op = "JSON" /\ last.n = doc /\ ~last.skipped
    /\ last.ret.st = "ok"

C2Kinds == {"string", "bool", "nil"} \cup IntKinds \cup FloatKinds

ScalarRecords(R) ==
    \A i \in 1..Len(R) : \A k \in DOMAIN R[i].m : R[i].m[k].t \in C2Kinds

\* C2: ParseFromMaps(R) followed by Maps(false) on the document returns,
\* without error or panic, R itself: as many maps, the same keys, and for
\* every key a value of the same type and the same value.
C2_TypedRoundTrip ==
    (input.kind = "maps" /\ ScalarRecords(input.R)
       /\ last.op = "Maps" /\ last.n = doc /\ ~last.skipped)
        => last.ret = Ok(input.R)

NoRepeatedKey(ms) == \A i, j \in 1..Len(ms) : ms[i].k = ms[j].k => i = j

\* C7 as claimed: the children of the node built from an object of the text
\* are in the order in which the keys are written.
C7_WrittenOrder ==
    (input.kind = "text" /\ last.op = "ChildNodes"
       /\ TextAt(input.T, tree, last.n).j = "obj"
       /\ tree[last.n].Type # TextNode
       /\ NoRepeatedKey(TextAt(input.T, tree, last.n).members))
        => LET ms == TextAt(input.T, tree, last.n).members
           IN Labels(tree, last.ret) = [i \in 1..Len(ms) |-> ms[i].k]

\* C7 amended: the children of the node built from an array of the text are
\* its elements in the order written, each with an empty label; the children
\* of the node built from an object are one per distinct key, in ascending
\* order of the keys, whatever the order in which they are written.
C7_SortedOrder ==
    (input.kind = "text" /\ last.op = "ChildNodes" /\ tree[last.n].Type # TextNode)
        => LET PT == TextAt(input.T, tree, last.n)
           IN /\ PT.j = "arr" =>
                    /\ Len(last.ret) = Len(PT.items)
                    /\ \A i \in 1..Len(last.ret) :
                          /\ tree[last.ret[i]].Data = ""
                          /\ JSON(tree, last.ret[i], FALSE) = Ok(Unmarshal(PT.items[i]))
              /\ PT.j = "obj" =>
                    /\ StrictlyAscending(Labels(tree, last.ret))
                    /\ {tree[last.ret[i]].Data : i \in 1..Len(last.ret)}
                          = {PT.members[i].k : i \in 1..Len(PT.members)}
                    /\ \A i \in 1..Len(last.ret) :
                          JSON(tree, last.ret[i], FALSE)
                              = Ok(Unmarshal(MemberValue(PT.members, tree[last.ret[i]].Data)))

\* the object {"b": .., "a": ..} read back with child a first
C7_Witness ==
    /\ input.kind = "text" /\ last.op = "ChildNodes" /\ last.n = doc
    /\ input.T.j = "obj" /\ Len(input.T.members) = 2
    /\ input.T.members[1].k = "b" /\ input.T.members[2].k = "a"
    /\ Labels(tree, last.ret) = <<"a", "b">>

\* C8: in every built tree the labels of the children of an object-tagged
\* node are strictly ascending; in the document of TestParseJson the element
\* labelled name is the last child.
C8_SortedChildren ==
    /\ \A n \in Nodes :
          tree[n].contentType = objectType => StrictlyAscending(Labels(tree, ChildNodes(tree, n)))
    /\ input = TextInput(DocJohn) =>
          /\ SelectElement(tree, doc, "name") # nil
          /\ tree[SelectElement(tree, doc, "name")].NextSibling = nil

C8_Witness ==
    /\ input.kind = "maps"
    /\ \E n \in Nodes : tree[n].contentType = objectType /\ Len(ChildNodes(tree, n)) = 2

-----------------------------------------------------------------------------
(* Properties of SetSkipped and SetInnerData (Spec).                       *)

RECURSIVE ProperAncestors(_, _)
ProperAncestors(t, n) ==
    IF t[n].Parent = nil THEN {} ELSE {t[n].Parent} \cup ProperAncestors(t, t[n].Parent)

\* the nodes from the child of a down to n, a being an ancestor of n
RECURSIVE ChainTo(_, _, _)
ChainTo(t, a, n) == IF n = a THEN <<>> ELSE Append(ChainTo(t, a, t[n].Parent), n)

RemoveIndex(seq, i) == SubSeq(seq, 1, i - 1) \o SubSeq(seq, i + 1, Len(seq))

\* the value v projected from a tree without skipped nodes, less the entry
\* (array slot or object key) of the last node of the chain
RECURSIVE RemoveEntry(_, _, _)
RemoveEntry(t, v, chain) ==
    LET c == Head(chain)
    IN IF v.t = "slice" THEN
           LET i == SiblingIndex(t, c)
           IN IF Len(chain) = 1 THEN GoSlice(RemoveIndex(v.items, i))
              ELSE GoSlice([v.items EXCEPT ![i] = RemoveEntry(t, v.items[i], Tail(chain))])
       ELSE
           LET k == t[c].Data
           IN IF Len(chain) = 1 THEN GoMap([x \in (DOMAIN v.m) \ {k} |-> v.m[x]])
              ELSE GoMap([v.m EXCEPT ![k] = RemoveEntry(t, v.m[k], Tail(chain))])

\* what the projections of node a must be after node e, below a, was marked
\* skipped in the freshly built tree pre
ExcludedFrom(pre, post, a, e) ==
    LET before == JSON(pre, a, TRUE)
        mbefore == Maps(pre, a, TRUE)
    IN /\ before.st = "ok" =>
             JSON(post, a, TRUE) = Ok(RemoveEntry(pre, before.v, ChainTo(pre, a, e)))
       /\ mbefore.st = "ok" =>
             Maps(post, a, TRUE) =
                 Ok(RemoveEntry(pre, GoSlice(mbefore.v), ChainTo(pre, a, e)).items)
       /\ JSON(post, a, FALSE) = JSON(pre, a, FALSE)

\* the node whose array slot or object key holds n
EntryNode(t, n) == IF t[n].Type = TextNode THEN t[n].Parent ELSE n

\* C3 as claimed: after SetSkipped(true) on one node n of a built tree, an
\* Element or a Text leaf, JSON(true) and Maps(true) of every node above it
\* return what they returned before less n's entry, and JSON(false) returns
\* what it returned before.
C3_Exclusion ==
    (last.op = "SetSkipped" /\ last.skipped /\ ops = 1)
        => \A a \in ProperAncestors(tree, EntryNode(tree, last.n)) :
              ExcludedFrom(last.pre, tree, a, EntryNode(tree, last.n))

\* C3 amended: the same for an Element n; marking a Text leaf skipped changes
\* no projection.
C3_ExclusionOfElement ==
    (last.op = "SetSkipped" /\ last.skipped /\ ops = 1)
        => IF tree[last.n].Type = TextNode
             THEN \A a \in Nodes, f \in BOOLEAN :
                     /\ JSON(tree, a, f) = JSON(last.pre, a, f)
                     /\ Maps(tree, a, f) = Maps(last.pre, a, f)
             ELSE \A a \in ProperAncestors(tree, last.n) :
                     ExcludedFrom(last.pre, tree, a, last.n)

\* an Element two levels down was marked and has left the document's projection
C3_Witness ==
    /\ last.op = "SetSkipped" /\ last.skipped /\ ops = 1
    /\ tree[last.n].Type = ElementNode /\ tree[last.n].level = 2
    /\ JSON(last.pre, doc, TRUE).st = "ok"
    /\ JSON(tree, doc, TRUE) # JSON(last.pre, doc, TRUE)
    /\ JSON(tree, doc, FALSE) = JSON(last.pre, doc, FALSE)

\* a Text node, or an Element whose sole child is a Text node
ScalarLeaf(t, n) ==
    \/ t[n].Type = TextNode
    \/ /\ t[n].Type = ElementNode
       /\ t[n].FirstChild # nil
       /\ t[n].FirstChild = t[n].LastChild
       /\ t[t[n].FirstChild].Type = TextNode

\* the Text leaf of a scalar leaf, and the node that owns it
LeafOf(t, n) == IF t[n].Type = TextNode THEN n ELSE t[n].FirstChild
OwnerOf(t, n) == t[LeafOf(t, n)].Parent

\* nil or a value of a kind the types table knows
Supported(v) == v = GoNil \/ TypeName(v) \in DOMAIN types

TagOf(v) == IF v = GoNil THEN nullType ELSE types[TypeName(v)]

\* node c and every node above it is in the filtered projection
RECURSIVE Retained(_, _)
Retained(t, c) ==
    t[c].Parent = nil \/ (~t[c].skipped /\ Retained(t, t[c].Parent))

\* the slot of c among the children of its parent that are not skipped
RECURSIVE RetainedIndex(_, _)
RetainedIndex(t, c) ==
    (IF t[c].skipped THEN 0 ELSE 1)
    + (IF t[c].PrevSibling = nil THEN 0 ELSE RetainedIndex(t, t[c].PrevSibling))

\* the value at the place of the last node of the chain in the filtered
\* projection v of the node above the chain
RECURSIVE ValueAt(_, _, _)
ValueAt(t, v, chain) ==
    IF chain = <<>> THEN v
    ELSE IF v.t = "slice" THEN ValueAt(t, v.items[RetainedIndex(t, Head(chain))], Tail(chain))
    ELSE ValueAt(t, v.m[t[Head(chain)].Data], Tail(chain))

\* C4: after SetInnerData(x) returns on a scalar leaf, x nil or of a
\* supported kind, InnerData() of the node is x, the tag of the leaf's
\* owner is the tag of x's kind, and JSON(true) on the document returns x at
\* the leaf's place (the leaf being in the filtered projection).
C4_MutationConsistency ==
    (last.op = "SetInnerData" /\ last.st = "ok"
       /\ ScalarLeaf(last.pre, last.n) /\ Supported(last.idata))
        => LET owner == OwnerOf(tree, last.n)
               r == JSON(tree, doc, TRUE)
           IN /\ InnerData(tree, last.n) = last.idata
              /\ tree[owner].contentType = TagOf(last.idata)
              /\ Retained(tree, owner) =>
                    /\ r.st = "ok"
                    /\ ValueAt(tree, r.v, ChainTo(tree, doc, owner)) = last.idata

\* the text parseValue gives the leaf of a value v
ConstructedText(v) == parseValue(<<NewNode(DocumentNode, "", 0, GoNil)>>, v, 1, 1)[2].Data

\* C5: after SetInnerData(v) returns on a scalar leaf, the text of the leaf,
\* and InnerText() of its owner, is the text construction gives a leaf
\* holding v; after SetInnerData(nil) it is the empty string.
C5_TextRendered ==
    (last.op = "SetInnerData" /\ last.st = "ok"
       /\ ScalarLeaf(last.pre, last.n) /\ Supported(last.idata))
        => /\ tree[LeafOf(tree, last.n)].Data = ConstructedText(last.idata)
           /\ InnerText(tree, OwnerOf(tree, last.n)) = ConstructedText(last.idata)
           /\ last.idata = GoNil =>
                 /\ tree[OwnerOf(tree, last.n)].contentType = nullType
                 /\ tree[LeafOf(tree, last.n)].Data = ""

\* Maps(skipped) passes over child c
PassedOver(t, c, skipped) == skipped /\ t[c].skipped

\* C6 as claimed: Maps(flag) returns an error whenever the node is not
\* array-tagged or one of its children, skipped or not, is not object-tagged,
\* and returns without error only when the node is array-tagged and every
\* child is object-tagged.
C6_MapsShape ==
    \A n \in Nodes, f \in BOOLEAN :
        LET r == Maps(tree, n, f)
            shaped == /\ tree[n].contentType = arrayType
                      /\ \A i \in 1..Len(ChildNodes(tree, n)) :
                            tree[ChildNodes(tree, n)[i]].contentType = objectType
        IN /\ ~shaped => r.st = "err"
           /\ r.st = "ok" => shaped

\* C6 amended: the children Maps(flag) passes over (the skipped ones, when
\* flag is true) are not looked at.  Maps returns without error only when
\* the node is array-tagged and every other child is object-tagged; when the
\* node is not array-tagged it returns an error; when a child not passed
\* over is not object-tagged it returns no records: an error, or the panic
\* of the projection of an earlier child.
C6_MapsShapeOfRetained ==
    \A n \in Nodes, f \in BOOLEAN :
        LET r == Maps(tree, n, f)
            kids == ChildNodes(tree, n)
            bad == {i \in 1..Len(kids) :
                      ~PassedOver(tree, kids[i], f) /\ tree[kids[i]].contentType # objectType}
        IN /\ r.st = "ok" => (tree[n].contentType = arrayType /\ bad = {})
           /\ tree[n].contentType # arrayType => r.st = "err"
           /\ (tree[n].contentType = arrayType /\ bad # {}) =>
                 \/ r.st = "err"
                 \/ /\ r.st = "panic"
                    /\ \E j \in 1..Len(kids) :
                          /\ \A i \in bad : j < i
                          /\ ~PassedOver(tree, kids[j], f)
                          /\ JSON(tree, kids[j], f).st = "panic"

\* a skipped child that is no object is passed over by Maps(true)
C6_Witness ==
    \E n \in Nodes :
        /\ tree[n].contentType = arrayType
        /\ \E i \in 1..Len(ChildNodes(tree, n)) :
              /\ tree[ChildNodes(tree, n)[i]].skipped
              /\ tree[ChildNodes(tree, n)[i]].contentType # objectType
        /\ Maps(tree, n, TRUE).st = "ok"
        /\ Maps(tree, n, FALSE).st = "err"

-----------------------------------------------------------------------------
(* Properties of Find (SpecFind).                                          *)

Depth(t, m) == Len(ChainTo(t, doc, m))

ChildAxisOnly(tokens) == \A i \in 1..Len(tokens) : tokens[i] # ""

SeqToSet(seq) == {seq[i] : i \in 1..Len(seq)}

\* the Elements labelled name whose leaf holds one of the numbers vals
Labelled(t, name, vals) ==
    {m \in 1..Len(t) : /\ t[m].Type = ElementNode
                       /\ t[m].Data = name
                       /\ InnerData(t, m) \in {GoNum("float64", v) : v \in vals}}

\* C9: for a pattern of child-axis steps only, every node Find returns lies
\* as many levels below the root as the pattern has tokens, and the node on
\* its path at level k has the label of the k-th token (any label for "*");
\* "*/asset_id" on the two assets returns the asset_id of each, values 1 and
\* 2, and not the one of value 11 inside layers.
C9_ChildAxis ==
    (last.op = "Find" /\ ChildAxisOnly(last.tokens))
        => /\ \A j \in 1..Len(last.ret) :
                 /\ Depth(tree, last.ret[j]) = Len(last.tokens)
                 /\ \A k \in 1..Len(last.tokens) :
                       TokenMatches(tree, ChainTo(tree, doc, last.ret[j])[k], last.tokens[k])
           /\ (input = TextInput(DocAssets) /\ last.tokens = <<"*", "asset_id">>)
                 => /\ Len(last.ret) = 2
                    /\ SeqToSet(last.ret) = Labelled(tree, "asset_id", {1, 2})

\* "*/asset_id" was asked of the two assets, one of which has an asset_id
\* deeper down that is not returned
C9_Witness ==
    /\ last.op = "Find"
    /\ last.tokens = <<"*", "asset_id">>
    /\ input = TextInput(DocAssets)
    /\ Len(last.ret) = 2
    /\ \E m \in Labelled(tree, "asset_id", {11}) :
          Depth(tree, m) > 2 /\ m \notin SeqToSet(last.ret)

\* the steps of a pattern: each token that is not empty, with its axis
RECURSIVE StepsOf(_, _, _)
StepsOf(tokens, i, axis) ==
    IF i > Len(tokens) THEN <<>>
    ELSE IF tokens[i] = "" THEN StepsOf(tokens, i + 1, "descendant")
    ELSE <<[axis |-> axis, token |-> tokens[i]]>> \o StepsOf(tokens, i + 1, "child")

\* node x is where the first k steps lead, read upwards from x
RECURSIVE Reaches(_, _, _, _)
Reaches(t, x, steps, k) ==
    IF k = 0 THEN x = doc
    ELSE /\ x # doc
         /\ TokenMatches(t, x, steps[k].token)
         /\ IF steps[k].axis = "child" THEN Reaches(t, t[x].Parent, steps, k - 1)
            ELSE \E a \in ProperAncestors(t, x) : Reaches(t, a, steps, k - 1)

\* the nodes a pattern reaches; none when it ends in an empty token
ReachSet(t, tokens) ==
    IF tokens[Len(tokens)] = "" THEN {}
    ELSE LET steps == StepsOf(tokens, 1, "child")
         IN {x \in 1..Len(t) : Reaches(t, x, steps, Len(steps))}

NoDuplicates(seq) == \A i, j \in 1..Len(seq) : i # j => seq[i] # seq[j]

\* the place of node x in the depth-first, left-to-right walk of the document
PlaceOf(t, x) ==
    LET walk == <<doc>> \o Descendants(t, doc)
    IN CHOOSE i \in 1..Len(walk) : walk[i] = x

InDocumentOrder(t, seq) ==
    \A i, j \in 1..Len(seq) : i < j => PlaceOf(t, seq[i]) < PlaceOf(t, seq[j])

\* the i-th node returned by "*/userID" belongs to the i-th record
UserIDOfEachRecord ==
    (last.op = "Find" /\ last.tokens = <<"*", "userID">> /\ input = TextInput(DocUsers))
        => /\ Len(last.ret) = Len(ChildNodes(tree, doc))
           /\ \A i \in 1..Len(last.ret) :
                 tree[last.ret[i]].Parent = ChildNodes(tree, doc)[i]

\* every descendant-axis step of the pattern has a literal token
LiteralDescendantSteps(tokens) ==
    \A i \in 2..Len(tokens) : tokens[i - 1] = "" => tokens[i] # "*"

-----------------------------------------------------------------------------
(* Properties of GetParent (SpecBuild).                                    *)

\* C11: for a node n and a level with 0 <= level < depth(n), GetParent(level)
\* returns the node of n's parent chain whose depth is level: the document
\* for level 0, n's parent for level depth(n) - 1, never n itself nor a node
\* off the chain.
C11_GetParentFound ==
    (last.op = "GetParent" /\ 0 <= last.level /\ last.level < Depth(tree, last.n))
        => /\ last.ret.st = "ok"
           /\ last.ret.v \in ProperAncestors(tree, last.n)
           /\ Depth(tree, last.ret.v) = last.level
           /\ last.ret.v # last.n
           /\ last.level = 0 => last.ret.v = doc
           /\ last.level = Depth(tree, last.n) - 1 => last.ret.v = tree[last.n].Parent

\* the grandparent of a node three levels down was asked for
C11_Witness ==
    /\ last.op = "GetParent"
    /\ Depth(tree, last.n) = 3 /\ last.level = 1
    /\ last.ret.st = "ok"
    /\ last.ret.v = tree[tree[last.n].Parent].Parent

\* C12: for a node n and a level at which n has no ancestor (level < 0,
\* level >= depth(n), or n the document), GetParent(level) returns an
\* out-of-range error to its caller and no node.
C12_GetParentOutOfRange ==
    (last.op = "GetParent" /\ (last.level < 0 \/ last.level >= Depth(tree, last.n)))
        => last.ret.st = "err"

-----------------------------------------------------------------------------
(* Shape of a built tree (SpecBuild).                                      *)

\* the value parseValue is given for an input
InputValue(in) == IF in.kind = "text" THEN Unmarshal(in.T) ELSE GoSlice(in.R)

\* C15: in a built tree the document has level 0 and no Parent; every other
\* node has a Parent one level up; the chain FirstChild, NextSibling, .. of
\* a node p ends at p.LastChild and visits the nodes whose Parent is p, each
\* once; PrevSibling mirrors NextSibling; and no call of addNode had the
\* node and top at the same level.
C15_TreeShape ==
    /\ tree[doc].level = 0
    /\ tree[doc].Parent = nil
    /\ \A n \in Nodes \ {doc} :
          /\ tree[n].Parent \in Nodes
          /\ tree[n].level = tree[tree[n].Parent].level + 1
    /\ \A p \in Nodes :
          LET kids == ChildNodes(tree, p)
          IN /\ NoDuplicates(kids)
             /\ SeqToSet(kids) = {m \in Nodes : tree[m].Parent = p}
             /\ IF kids = <<>>
                  THEN tree[p].FirstChild = nil /\ tree[p].LastChild = nil
                  ELSE /\ kids[1] = tree[p].FirstChild
                       /\ kids[Len(kids)] = tree[p].LastChild
                       /\ tree[tree[p].FirstChild].PrevSibling = nil
                       /\ tree[tree[p].LastChild].NextSibling = nil
    /\ \A x, y \in Nodes : tree[x].NextSibling = y <=> tree[y].PrevSibling = x
    /\ \A a \in AddLevels(InputValue(input), 0, 1) : a[1] > a[2]

\* the document of TestFindAssetIDs: two records, leaves five levels down
C15_Witness ==
    /\ input = TextInput(DocAssets)
    /\ Len(ChildNodes(tree, doc)) = 2
    /\ \E n \in Nodes : tree[n].Type = TextNode /\ Depth(tree, n) = 5
    /\ \E n \in Nodes : Len(ChildNodes(tree, n)) = 3

-----------------------------------------------------------------------------
(* Properties of the states SetSkipped and SetInnerData lead to (Spec).    *)

\* the tree with no node marked skipped
Unskip(t) == [m \in 1..Len(t) |-> [t[m] EXCEPT !.skipped = FALSE]]

\* no Text leaf holds a payload that only a failed SetInnerData leaves
NoFailedCall(t) ==
    \A m \in 1..Len(t) : t[m].Type = TextNode => Supported(t[m].idata)

\* C13: in a tree reached by successful SetInnerData and SetSkipped calls,
\* for every node JSON(true) returns, without error, what InnerData()
\* returns, and JSON(false) returns that with the entries of the skipped
\* descendants put back.
C13_InnerDataIsFilteredJSON ==
    NoFailedCall(tree)
        => \A n \in Nodes :
              /\ JSON(tree, n, TRUE) = Ok(InnerData(tree, n))
              /\ JSON(tree, n, FALSE) = Ok(InnerData(Unskip(tree), n))

ScalarTags == {stringType, boolType, nullType} \cup IntKinds \cup FloatKinds

\* the payload v is of the type the scalar tag names
PayloadOfTag(tag, v) == IF tag = nullType THEN v = GoNil ELSE v # GoNil /\ v.t = tag

\* C14: in every state, every Element or Document with a scalar tag has
\* exactly one child, a Text node, whose payload is of the type the tag names.
C14_TagPayload ==
    \A n \in Nodes :
        (tree[n].Type \in {ElementNode, DocumentNode} /\ tree[n].contentType \in ScalarTags)
            => /\ Len(ChildNodes(tree, n)) = 1
               /\ tree[tree[n].FirstChild].Type = TextNode
               /\ PayloadOfTag(tree[n].contentType, tree[tree[n].FirstChild].idata)

\* node m has in post the links, kind, level and (an Element) label it has in pre
SameTopology(pre, post, m) ==
    /\ post[m].Parent = pre[m].Parent
    /\ post[m].PrevSibling = pre[m].PrevSibling
    /\ post[m].NextSibling = pre[m].NextSibling
    /\ post[m].FirstChild = pre[m].FirstChild
    /\ post[m].LastChild = pre[m].LastChild
    /\ post[m].Type = pre[m].Type
    /\ post[m].level = pre[m].level
    /\ pre[m].Type = ElementNode => post[m].Data = pre[m].Data

\* C16: SetSkipped and SetInnerData, failed or not, leave the links, kind
\* and level of every node and the label of every Element as they were;
\* SetSkipped(f) changes only the flag of its node; a successful
\* SetInnerData changes at most the payload and text of one Text leaf and
\* the tag of that leaf's parent.
C16_TopologyFrozen ==
    (last.op \in {"SetSkipped", "SetInnerData"})
        => /\ Len(tree) = Len(last.pre)
           /\ \A m \in Nodes : SameTopology(last.pre, tree, m)
           /\ last.op = "SetSkipped" =>
                 /\ tree[last.n].skipped = last.skipped
                 /\ \A m \in Nodes :
                       [tree[m] EXCEPT !.skipped = last.pre[m].skipped] = last.pre[m]
                 /\ \A m \in Nodes \ {last.n} : tree[m] = last.pre[m]
           /\ (last.op = "SetInnerData" /\ last.st = "ok") =>
                 \/ tree = last.pre
                 \/ \E leaf \in Nodes :
                       /\ tree[leaf].Type = TextNode
                       /\ [tree[leaf] EXCEPT !.idata = last.pre[leaf].idata,
                                             !.Data = last.pre[leaf].Data] = last.pre[leaf]
                       /\ [tree[tree[leaf].Parent] EXCEPT
                              !.contentType = last.pre[tree[leaf].Parent].contentType]
                             = last.pre[tree[leaf].Parent]
                       /\ \A m \in Nodes \ {leaf, tree[leaf].Parent} : tree[m] = last.pre[m]

\* both calls have been made: a flag set, then a leaf given a new value
C16_Witness ==
    /\ ops = 2
    /\ last.op = "SetInnerData" /\ last.st = "ok"
    /\ tree # last.pre
    /\ \E m \in Nodes : tree[m].skipped

\* C17: the flags do not show in traversal: ChildNodes, InnerText,
\* SelectElement and GetParent give on every node what they give in the
\* tree with no flag set; a skipped node is listed by ChildNodes of its
\* parent and is what SelectElement returns when it is the first child of
\* its label.
C17_FlagsInvisible ==
    \A n \in Nodes :
        /\ ChildNodes(tree, n) = ChildNodes(Unskip(tree), n)
        /\ InnerText(tree, n) = InnerText(Unskip(tree), n)
        /\ \A name \in Keys \cup {""} :
              SelectElement(tree, n, name) = SelectElement(Unskip(tree), n, name)
        /\ \A level \in -1..Len(tree) :
              GetParent(tree, n, level) = GetParent(Unskip(tree), n, level)
        /\ (tree[n].skipped /\ n # doc) =>
              /\ n \in SeqToSet(ChildNodes(tree, tree[n].Parent))
              /\ (\A i \in 1..(SiblingIndex(tree, n) - 1) :
                     tree[ChildNodes(tree, tree[n].Parent)[i]].Data # tree[n].Data)
                    => SelectElement(tree, tree[n].Parent, tree[n].Data) = n

\* a skipped Element with a label and text below it
C17_Witness ==
    \E n \in Nodes :
        /\ tree[n].skipped
        /\ tree[n].Type = ElementNode
        /\ tree[n].Data \in Keys
        /\ InnerText(tree, n) # ""
        /\ SelectElement(tree, tree[n].Parent, tree[n].Data) = n

\* C18: SetInnerData(v) on a scalar leaf, v not nil and of a kind without a
\* scalar tag, fails and leaves the leaf's payload and text and its parent's
\* tag as they were, so that InnerData() and JSON still give the value from
\* before.
C18_FailsAtomically ==
    (last.op = "SetInnerData" /\ ScalarLeaf(last.pre, last.n)
       /\ last.idata # GoNil /\ ~Supported(last.idata))
        => LET leaf == LeafOf(last.pre, last.n)
               owner == OwnerOf(last.pre, last.n)
           IN /\ last.st = "panic"
              /\ tree[leaf].idata = last.pre[leaf].idata
              /\ tree[leaf].Data = last.pre[leaf].Data
              /\ tree[owner].contentType = last.pre[owner].contentType
              /\ InnerData(tree, last.n) = InnerData(last.pre, last.n)
              /\ \A f \in BOOLEAN : JSON(tree, last.n, f) = JSON(last.pre, last.n, f)

\* C19: SetInnerData(v) on a node that is neither a Text node nor an
\* Element whose sole child is a Text node changes the payload and text of
\* no Text leaf and the tag of no node.
C19_InvalidTargetUntouched ==
    (last.op = "SetInnerData" /\ ~ScalarLeaf(last.pre, last.n))
        => \A m \in Nodes :
              /\ tree[m].idata = last.pre[m].idata
              /\ tree[m].Data = last.pre[m].Data
              /\ tree[m].contentType = last.pre[m].contentType

====
